---- MODULE Spec2Model ----
(***************************************************************************)
(* Model of src/lib/vgm.c: the single-track Standard MIDI File writer      *)
(* behind the vgm_open / vgm_write / vgm_delay / vgm_write_tag / vgm_close *)
(* API.  The state is the file's globals plus the contents of the heap     *)
(* block the write cursor points into.  Every handler is one action; the   *)
(* helpers it calls (write_u8, write_bytes, write_varlen, ...) are         *)
(* operators from a state record to the SET of states the call can end in, *)
(* because realloc() may fail, grow in place or move the block, and        *)
(* because a write through a null or out-of-bounds pointer is undefined.   *)
(***************************************************************************)
EXTENDS Integers, Sequences, FiniteSets, TLC

VARIABLES
    buffer_size,      \* uint32_t buffer_size (modulo SizeWrap in the model)
    delayq,           \* uint32_t delayq, as a U32
    vgmdata,          \* uint8_t* vgmdata  (pointer, see Ptr)
    data,             \* uint8_t* data     (the write cursor)
    filename,         \* char* filename    (<<>> is NULL, else the characters)
    track_len_ptr,    \* uint8_t* track_len_ptr
    track_start_ptr,  \* uint8_t* track_start_ptr
    mem,              \* bytes [0, cursor) of the block `data` points into
    fault,            \* "ok", or "crashed" once the process has died
    oob,              \* a byte was stored past the end of the block
    heap,             \* how many malloc'ed blocks are not yet freed:
                      \* [buf] buffers and [name] filenames
    patch,            \* where the last length patch of vgm_close stored:
                      \* "none", "live" (the buffer) or "stray"
    files,            \* the write_file(name, bytes) calls made so far
    sum_added,        \* delay units added by vgm_delay since vgm_open,
                      \* kept as [q, r] standing for 10 * q + r
    sum_ticks,        \* delta ticks emitted since vgm_open
    sum_disc,         \* delay units dropped by flush_delay_get_ticks
    ovf,              \* delayq wrapped around 2^32 since vgm_open
    last,             \* the last API call: its name, inputs and effect
    track,            \* the calls that appended bytes since vgm_open, each
                      \* with the bytes it appended
    scen,             \* progress through the call sequence open("song"),
                      \* Note On, vgm_delay(50), Note Off, close
    ncalls            \* how many API calls were made (bounds the model)

vars == <<buffer_size, delayq, vgmdata, data, filename, track_len_ptr,
          track_start_ptr, mem, fault, oob, heap, patch, files, sum_added,
          sum_ticks, sum_disc, ovf, last, track, scen, ncalls>>

(***************************************************************************)
(* Bounds of the model.  MIDI_BUFFER and GrowMargin are the source's       *)
(* 50000000 (vgm.c:43) and 1024 (vgm.c:62, 77) scaled down so that a       *)
(* handful of events fills the buffer; the scaling keeps what the source's *)
(* numbers guarantee: vgm_open's 22 bytes never trigger a growth, and the  *)
(* margin exceeds the largest single append (a tag text).                  *)
(***************************************************************************)
MIDI_BUFFER == 104
GrowMargin == 64
MaxCalls == 5
\* buffer_size is a uint32_t: 2^32 in the source, scaled with MIDI_BUFFER so
\* that, as in the source, a few doublings fit before the counter wraps.
SizeWrap == 2048
\* How far the cursor may go in the specification of buffer growth.
MaxCursor == 1700

(***************************************************************************)
(* uint32_t delays.  TLC's integers are 32-bit signed, so a uint32_t that  *)
(* can reach 2^32 - 1 is kept as two 16-bit halves, hi * 65536 + lo.       *)
(***************************************************************************)
U32(hi, lo) == [hi |-> hi, lo |-> lo]
U32Of(n) == U32(n \div 65536, n % 65536)           \* for 0 <= n < 2^31
U32Add(a, b) ==                                    \* a + b modulo 2^32
    U32((a.hi + b.hi + (a.lo + b.lo) \div 65536) % 65536, (a.lo + b.lo) % 65536)
U32Carry(a, b) == a.hi + b.hi + (a.lo + b.lo) \div 65536 >= 65536
U32Div10(a) ==                                     \* a / 10, below 2^29
    (a.hi \div 10) * 65536 + ((a.hi % 10) * 65536 + a.lo) \div 10
U32Mod10(a) == ((a.hi % 10) * 6 + a.lo) % 10       \* a % 10; 65536 % 10 = 6
U32Ge10(a) == a.hi > 0 \/ a.lo >= 10               \* a >= 10

(***************************************************************************)
(* Pointers.  A pointer is where it points and an offset:                  *)
(*   "null"  NULL                                                          *)
(*   "buf"   into the allocated block whose bytes are `mem`                *)
(*   "freed" into a block that was released (dangling)                     *)
(*   "lost"  into an allocated block no global points to any more          *)
(*   "wild"  an address computed from unrelated pointers                   *)
(***************************************************************************)
NULL == [st |-> "null", off |-> 0]
Ptr(st, off) == [st |-> st, off |-> off]

\* The globals as one record, threaded through the helpers.
Cur ==
    [buffer_size |-> buffer_size, delayq |-> delayq, vgmdata |-> vgmdata,
     data |-> data, filename |-> filename, track_len_ptr |-> track_len_ptr,
     track_start_ptr |-> track_start_ptr, mem |-> mem, fault |-> fault,
     oob |-> oob, heap |-> heap, patch |-> patch, files |-> files,
     sum_added |-> sum_added,
     sum_ticks |-> sum_ticks, sum_disc |-> sum_disc, ovf |-> ovf]

Crash(s) == [s EXCEPT !.fault = "crashed"]

(***************************************************************************)
(* `*data++ = v` (vgm.c:60).  A store through NULL or a wild pointer kills *)
(* the process; a store past the end of the block is a heap overflow,      *)
(* which either kills the process or silently lands in adjacent memory.    *)
(***************************************************************************)
Store(s, v) ==
    IF s.fault # "ok" THEN {s}
    ELSE IF s.data.st # "buf" THEN {Crash(s)}
    ELSE LET t == [s EXCEPT !.mem = Append(s.mem, v),
                            !.data = Ptr("buf", s.data.off + 1)]
         IN  IF s.data.off >= s.buffer_size
             THEN {Crash(s), [t EXCEPT !.oob = TRUE]}
             ELSE {t}

\* `buffer_size - (data - vgmdata) < 1024` (vgm.c:62, 77), evaluated in
\* signed 64-bit arithmetic.  With vgmdata NULL the difference is the
\* address held in data, which exceeds every buffer_size.
NeedsGrow(s) ==
    IF s.vgmdata.st = s.data.st
    THEN s.buffer_size - (s.data.off - s.vgmdata.off) < GrowMargin
    ELSE TRUE

\* `buffer_size * 2` in uint32_t (vgm.c:63, 66, 79, 81): the size passed to
\* realloc() and the new buffer_size both wrap.
Double(n) == (n * 2) % SizeWrap

\* A pointer into the block realloc() has just moved away from.
Stale(p) == IF p.st = "buf" THEN Ptr("freed", p.off) ELSE p

\* A pointer into the block that vgmdata stopped pointing to without free().
Lost(p) == IF p.st = "buf" THEN Ptr("lost", p.off) ELSE p

\* Mutant: a moved block is not filled with the old contents.
Grow_NoCopy(s) ==
    IF s.fault # "ok" THEN {s}
    ELSE IF ~NeedsGrow(s) THEN {s}
    ELSE LET g == [s EXCEPT !.buffer_size = Double(s.buffer_size)]
         IN  {s, g,
              [g EXCEPT !.mem = [i \in 1..Len(s.mem) |-> 0],
                        !.track_len_ptr = Stale(s.track_len_ptr),
                        !.track_start_ptr = Stale(s.track_start_ptr)]}

(***************************************************************************)
(* The growth step of write_u8 / write_bytes (vgm.c:62-70, 77-85):         *)
(* realloc(vgmdata, buffer_size * 2) fails (nothing changes), grows the    *)
(* block in place, or moves it.  The code rebases vgmdata and data only:   *)
(* after a move track_len_ptr and track_start_ptr still hold addresses of  *)
(* the released block.                                                     *)
(***************************************************************************)
Grow(s) ==
    IF s.fault # "ok" THEN {s}
    ELSE IF ~NeedsGrow(s) THEN {s}
    ELSE IF s.vgmdata.st = "buf" /\ s.data.st = "buf"
    THEN LET g == [s EXCEPT !.buffer_size = Double(s.buffer_size)]
         IN  {s, g,
              [g EXCEPT !.track_len_ptr = Stale(s.track_len_ptr),
                        !.track_start_ptr = Stale(s.track_start_ptr)]}
    ELSE \* realloc(NULL, n) is malloc(n); offset = data - NULL is an address
         {s, [s EXCEPT !.buffer_size = Double(s.buffer_size),
                       !.heap = [s.heap EXCEPT !.buf = @ + 1],
                       !.vgmdata = Ptr("buf", 0),
                       !.data = Ptr("wild", 0),
                       !.mem = <<>>,
                       !.track_len_ptr = Lost(s.track_len_ptr),
                       !.track_start_ptr = Lost(s.track_start_ptr)]}

write_u8(s, v) == UNION {Grow(t) : t \in Store(s, v)}

RECURSIVE StoreAll(_, _)
StoreAll(S, src) ==
    IF src = <<>> THEN S
    ELSE StoreAll(UNION {Store(t, Head(src)) : t \in S}, Tail(src))

\* memcpy(data, src, len); data += len; then the growth step (vgm.c:73-86).
write_bytes(s, src) == UNION {Grow(t) : t \in StoreAll({s}, src)}

RECURSIVE write_u8_all(_, _)
write_u8_all(S, bytes) ==
    IF bytes = <<>> THEN S
    ELSE write_u8_all(UNION {write_u8(t, Head(bytes)) : t \in S}, Tail(bytes))

\* vgm.c:89-95
write_be32(s, v) ==
    write_u8_all({s}, <<(v \div 16777216) % 256, (v \div 65536) % 256,
                        (v \div 256) % 256, v % 256>>)

\* vgm.c:98-102
write_be16(s, v) == write_u8_all({s}, <<(v \div 256) % 256, v % 256>>)

(***************************************************************************)
(* write_varlen (vgm.c:105-120).  value is a uint32_t, a U32 here.         *)
(* VarlenBuf is the temporary buffer[]: buffer[0] = value & 0x7F without   *)
(* the continuation bit, then one byte 0x80 | (value & 0x7F) per further   *)
(* 7-bit group; the bytes are written in reverse order.                    *)
(***************************************************************************)
\* value >> 7 and value & 0x7F on the two halves
U32Shr7(a) == U32(a.hi \div 128, (a.hi % 128) * 512 + a.lo \div 128)
U32Low7(a) == a.lo % 128

RECURSIVE VarlenMore(_)
VarlenMore(value) ==
    IF value = U32(0, 0) THEN <<>>
    ELSE <<128 + U32Low7(value)>> \o VarlenMore(U32Shr7(value))

VarlenBuf(value) == <<U32Low7(value)>> \o VarlenMore(U32Shr7(value))

Reverse(q) == [i \in 1..Len(q) |-> q[Len(q) + 1 - i]]

\* Mutant: buffer[] is written out in the order it was filled.
write_varlen_Unreversed(s, value) == write_u8_all({s}, VarlenBuf(value))

write_varlen(s, value) == write_u8_all({s}, Reverse(VarlenBuf(value)))

(***************************************************************************)
(* Character data.  Strings are sequences of byte values.                  *)
(***************************************************************************)
MThd == <<77, 84, 104, 100>>
MTrk == <<77, 84, 114, 107>>
DotMid == <<46, 109, 105, 100>>                \* ".mid"
EmDash == <<226, 128, 148>>                    \* the UTF-8 bytes of U+2014
Digit(d) == 48 + d
HexDigit(d) == IF d < 10 THEN 48 + d ELSE 87 + d   \* lower case, as %x
Dec2(n) == <<Digit((n \div 10) % 10), Digit(n % 10)>>
Dec4(n) == <<Digit((n \div 1000) % 10), Digit((n \div 100) % 10)>> \o Dec2(n)

Suffix(q, n) == SubSeq(q, Len(q) - n + 1, Len(q))

EndsWith(q, tail) ==
    Len(q) >= Len(tail) /\ SubSeq(q, Len(q) - Len(tail) + 1, Len(q)) = tail

(***************************************************************************)
(* vgm_open (vgm.c:125-168).  nameOk and bufOk are the outcomes of the two *)
(* malloc() calls.  There is no check that a stream is already open: the   *)
(* globals are simply overwritten (the previous block and name leak).      *)
(***************************************************************************)
vgm_open(s, fname, nameOk, bufOk) ==
    IF ~nameOk THEN {s}
    ELSE
    LET flen == Len(fname)
        name == IF flen < 4 \/ Suffix(fname, 4) # DotMid
                THEN fname \o DotMid ELSE fname
        s1 == [s EXCEPT !.filename = name, !.delayq = U32Of(0),
                        !.heap = [s.heap EXCEPT !.name = @ + 1],
                        !.sum_added = [q |-> 0, r |-> 0], !.sum_ticks = 0, !.sum_disc = 0,
                        !.ovf = FALSE]
    IN  IF ~bufOk THEN {[s1 EXCEPT !.vgmdata = NULL]}
        ELSE
        LET s2 == [s1 EXCEPT !.vgmdata = Ptr("buf", 0),
                             !.heap = [s1.heap EXCEPT !.buf = @ + 1],
                             !.data = Ptr("buf", 0),
                             !.buffer_size = MIDI_BUFFER,
                             !.mem = <<>>, !.oob = FALSE]
            h1 == write_bytes(s2, MThd)
            h2 == UNION {write_be32(t, 6) : t \in h1}
            h3 == UNION {write_be16(t, 0) : t \in h2}
            h4 == UNION {write_be16(t, 1) : t \in h3}
            h5 == UNION {write_be16(t, 480) : t \in h4}
            h6 == UNION {write_bytes(t, MTrk) : t \in h5}
            h7 == {[t EXCEPT !.track_len_ptr = t.data] : t \in h6}
            h8 == UNION {write_be32(t, 0) : t \in h7}
        IN  {[t EXCEPT !.track_start_ptr = t.data] : t \in h8}

\* flush_delay_get_ticks (vgm.c:174-179): Ticks is the value it returns,
\* flush_delay_get_ticks the state it leaves.
Ticks(s) == U32Div10(s.delayq)

flush_delay_get_ticks(s) ==
    [s EXCEPT !.delayq = U32Of(0),
              !.sum_ticks = s.sum_ticks + Ticks(s),
              !.sum_disc = s.sum_disc + U32Mod10(s.delayq)]

\* Mutant: a zero delta-time is not written at all.
flush_delay_SkipsZero(s) ==
    IF U32Ge10(s.delayq)
    THEN write_varlen(flush_delay_get_ticks(s), U32Of(Ticks(s)))
    ELSE {s}

\* The delta-time step that opens vgm_write, vgm_write_tag and vgm_close
\* (vgm.c:194-200, 298-303, 329-334).
flush_delay(s) ==
    IF U32Ge10(s.delayq)
    THEN write_varlen(flush_delay_get_ticks(s), U32Of(Ticks(s)))
    ELSE write_varlen(s, U32Of(0))

\* Mutant: the data bytes are not masked to 7 bits.
MessageBytes_Unmasked(command, port, reg, value) ==
    LET status == (command \div 16) * 16
        channel == port % 16
    IN  IF status \in {144, 128, 176}
        THEN <<status + channel, reg % 256, value % 256>>
        ELSE IF status = 192
        THEN <<192 + channel, value % 256>>
        ELSE IF status = 224
        THEN <<224 + channel, value % 256, (value \div 256) % 256>>
        ELSE IF command = 255
        THEN IF reg % 256 = 47 THEN <<255, 47, 0>> ELSE <<>>
        ELSE <<>>

\* Mutant: the meta type is compared as the whole 16-bit reg.
MessageBytes_WholeReg(command, port, reg, value) ==
    LET status == (command \div 16) * 16
        channel == port % 16
    IN  IF status \in {144, 128, 176}
        THEN <<status + channel, reg % 128, value % 128>>
        ELSE IF status = 192
        THEN <<192 + channel, value % 128>>
        ELSE IF status = 224
        THEN <<224 + channel, value % 128, (value \div 128) % 128>>
        ELSE IF command = 255
        THEN IF reg = 47 THEN <<255, 47, 0>> ELSE <<>>
        ELSE <<>>

(***************************************************************************)
(* The message bytes of vgm_write (vgm.c:202-256).  command and port are   *)
(* uint8_t, reg and value uint16_t.                                        *)
(***************************************************************************)
MessageBytes(command, port, reg, value) ==
    LET status == (command \div 16) * 16       \* command & 0xF0
        channel == port % 16                   \* port & 0x0F
    IN  IF status \in {144, 128, 176}
        THEN <<status + channel, reg % 128, value % 128>>
        ELSE IF status = 192
        THEN <<192 + channel, value % 128>>
        ELSE IF status = 224
        THEN LET bend == value % 16384         \* value & 0x3FFF
             IN  <<224 + channel, bend % 128, (bend \div 128) % 128>>
        ELSE IF command = 255
        THEN IF reg % 256 = 47 THEN <<255, 47, 0>> ELSE <<>>
        ELSE <<>>

\* Mutant: the message is written before its delta-time.
vgm_write_MessageFirst(s, command, port, reg, value) ==
    UNION {flush_delay(t) :
             t \in write_u8_all({s}, MessageBytes(command, port, reg, value))}

\* Mutant: a command that produces no message returns before the flush.
vgm_write_EarlyReturn(s, command, port, reg, value) ==
    IF MessageBytes(command, port, reg, value) = <<>> THEN {s}
    ELSE write_u8_all(flush_delay(s), MessageBytes(command, port, reg, value))

\* vgm_write (vgm.c:191-257)
vgm_write(s, command, port, reg, value) ==
    write_u8_all(flush_delay(s), MessageBytes(command, port, reg, value))

\* Mutant: the addition saturates at 2^32 - 1 instead of wrapping.
vgm_delay_Saturating(s, delay) ==
    [s EXCEPT !.delayq = IF U32Carry(s.delayq, delay) THEN U32(65535, 65535)
                         ELSE U32Add(s.delayq, delay),
              !.ovf = s.ovf \/ U32Carry(s.delayq, delay)]

\* vgm_delay (vgm.c:260-263): delayq += delay, in uint32_t.  The sum of
\* the delays is kept for as long as delayq has not wrapped.
vgm_delay(s, delay) ==
    LET wraps == s.ovf \/ U32Carry(s.delayq, delay)
    IN  [s EXCEPT !.delayq = U32Add(s.delayq, delay),
                  !.sum_added =
                      IF wraps THEN s.sum_added
                      ELSE [q |-> s.sum_added.q + U32Div10(delay)
                                    + (s.sum_added.r + U32Mod10(delay)) \div 10,
                            r |-> (s.sum_added.r + U32Mod10(delay)) % 10],
                  !.ovf = wraps]

(***************************************************************************)
(* The stubs kept from the VGM writer (vgm.c:266-290): every parameter is  *)
(* cast to void and nothing else is done.                                  *)
(***************************************************************************)
vgm_poke32(s, offset, d) == s

vgm_poke8(s, offset, d) == s

vgm_datablock(s, dbtype, dbsize, datablock, maxsize, mask, flags) == s

vgm_setloop(s) == s

(***************************************************************************)
(* vgm_write_tag (vgm.c:295-323).  tm is the broken-down local time        *)
(* (struct tm: tm_year counts from 1900, tm_mon from 0); gamename is a     *)
(* byte string or <<>> for NULL or ""; snprintf keeps at most 511 bytes.   *)
(***************************************************************************)
Timestamp(tm) ==
    Dec4(tm.tm_year + 1900) \o <<45>> \o Dec2(tm.tm_mon + 1) \o <<45>>
      \o Dec2(tm.tm_mday) \o <<32>> \o Dec2(tm.tm_hour) \o <<58>>
      \o Dec2(tm.tm_min) \o <<58>> \o Dec2(tm.tm_sec)

SongIdText == <<83, 111, 110, 103, 32, 73, 68, 58, 32>>            \* "Song ID: "
GeneratedText == <<71, 101, 110, 101, 114, 97, 116, 101, 100, 58, 32>>  \* "Generated: "

Hex3(n) == <<HexDigit((n \div 256) % 16), HexDigit((n \div 16) % 16),
             HexDigit(n % 16)>>

TagText(gamename, songid, tm) ==
    LET sep == <<32>> \o EmDash \o <<32>>
        full == IF songid >= 0
                THEN gamename \o sep \o SongIdText \o Hex3(songid % 2048)
                       \o sep \o GeneratedText \o Timestamp(tm)
                ELSE gamename \o sep \o GeneratedText \o Timestamp(tm)
    IN  IF Len(full) > 511 THEN SubSeq(full, 1, 511) ELSE full

vgm_write_tag(s, gamename, songid, tm) ==
    LET buf == TagText(gamename, songid, tm)
        t1 == write_u8_all(flush_delay(s), <<255, 1>>)
        t2 == UNION {write_varlen(t, U32Of(Len(buf))) : t \in t1}
    IN  UNION {write_bytes(t, buf) : t \in t2}

(***************************************************************************)
(* vgm_close (vgm.c:326-361).                                              *)
(***************************************************************************)
BE32(v) == <<(v \div 16777216) % 256, (v \div 65536) % 256,
             (v \div 256) % 256, v % 256>>

\* mem with the four bytes at offset off replaced
Poke4(m, off, b) ==
    [i \in 1..Len(m) |-> IF i > off /\ i <= off + 4 THEN b[i - off] ELSE m[i]]

\* vgm.c:342-349.  track_len_ptr and track_start_ptr are used as captured
\* by vgm_open.  If the block has moved since, the four stores go to the
\* released block: the process dies, or the stores are lost.
PatchLength(s) ==
    IF s.fault # "ok" THEN {s}
    ELSE IF s.track_len_ptr.st = "null" \/ s.track_start_ptr.st = "null"
    THEN {[s EXCEPT !.patch = "none"]}
    ELSE IF s.track_len_ptr.st = "lost"
    THEN {[s EXCEPT !.patch = "stray"]}
    ELSE IF s.track_len_ptr.st = "buf" /\ s.track_start_ptr.st = "buf"
    THEN LET track_length == s.data.off - s.track_start_ptr.off
         IN  {[s EXCEPT !.mem = Poke4(s.mem, s.track_len_ptr.off,
                                      BE32(track_length)),
                        !.patch = "live"]}
    ELSE {Crash(s), [s EXCEPT !.patch = "stray"]}

\* vgm.c:351-360: write_file(filename, vgmdata, data - vgmdata), whose
\* outcome (failed or not) the code does not look at, then the two free()
\* calls.  When vgmdata and data do not point into one block
\* (vgmdata is NULL, or data is wild) the size passed is an address: the
\* process dies in write_file, or write_file is handed bytes that are not
\* the stream (valid = FALSE).
WriteAndFree(s) ==
    IF s.fault # "ok" THEN {s}
    ELSE
    LET freed == [s EXCEPT !.vgmdata = NULL, !.data = NULL,
                           !.filename = <<>>, !.mem = <<>>,
                           !.heap = [buf |-> IF s.vgmdata.st = "buf"
                                             THEN s.heap.buf - 1 ELSE s.heap.buf,
                                     name |-> IF s.filename # <<>>
                                              THEN s.heap.name - 1 ELSE s.heap.name],
                           !.track_len_ptr = Stale(s.track_len_ptr),
                           !.track_start_ptr = Stale(s.track_start_ptr)]
    IN  IF s.vgmdata.st = "buf" /\ s.data.st = "buf"
        THEN {[freed EXCEPT !.files =
                 Append(s.files, [name |-> s.filename, bytes |-> s.mem,
                                  valid |-> TRUE, failed |-> f])]
                : f \in BOOLEAN}
        ELSE {Crash(s),
              [freed EXCEPT !.files =
                 Append(s.files, [name |-> s.filename, bytes |-> <<>>,
                                  valid |-> FALSE, failed |-> TRUE])]}

\* Mutant: no End of Track is appended when the track already ends in one.
vgm_close_NoDuplicate(s) ==
    LET c1 == IF EndsWith(s.mem, <<255, 47, 0>>) THEN {s}
              ELSE write_u8_all(flush_delay(s), <<255, 47, 0>>)
        c2 == UNION {PatchLength(t) : t \in c1}
    IN  UNION {WriteAndFree(t) : t \in c2}

vgm_close(s) ==
    LET c1 == write_u8_all(flush_delay(s), <<255, 47, 0>>)
        c2 == UNION {PatchLength(t) : t \in c1}
    IN  UNION {WriteAndFree(t) : t \in c2}

(***************************************************************************)
(* The inputs the callers are modelled to pass.                            *)
(***************************************************************************)
Song == <<115, 111, 110, 103>>                 \* "song"
AMid == <<97>> \o DotMid                       \* "a.mid"
Names == {Song, AMid}

\* <<command, port, reg, value>>: Note On, Note Off, an unsupported
\* command and End of Track.
Events == {<<144, 0, 60, 100>>, <<128, 0, 60, 0>>, <<160, 0, 0, 0>>,
           <<255, 0, 47, 0>>}

Delays == {U32Of(5), U32Of(30), U32Of(50), U32(65535, 65535)}

Clock == [tm_year |-> 126, tm_mon |-> 10, tm_mday |-> 1,
          tm_hour |-> 9, tm_min |-> 5, tm_sec |-> 59]
\* <<gamename, songid>>: the name "G" with song id 0x801
Tags == {<<<<71>>, 2049>>}

Init ==
    /\ buffer_size = 0
    /\ delayq = U32Of(0)
    /\ vgmdata = NULL
    /\ data = NULL
    /\ filename = <<>>
    /\ track_len_ptr = NULL
    /\ track_start_ptr = NULL
    /\ mem = <<>>
    /\ fault = "ok"
    /\ oob = FALSE
    /\ heap = [buf |-> 0, name |-> 0]
    /\ patch = "none"
    /\ files = <<>>
    /\ sum_added = [q |-> 0, r |-> 0]
    /\ sum_ticks = 0
    /\ sum_disc = 0
    /\ ovf = FALSE
    /\ last = [op |-> "init", args |-> <<>>, dq |-> U32Of(0), chunk |-> <<>>,
               disc |-> 0, live |-> FALSE]
    /\ track = <<>>
    /\ scen = 0
    /\ ncalls = 0

\* The state t a handler ends in becomes the next state; l describes the
\* call, tr is the record of appended bytes and sc the scenario progress.
Apply(t, l, tr, sc) ==
    /\ buffer_size' = t.buffer_size
    /\ delayq' = t.delayq
    /\ vgmdata' = t.vgmdata
    /\ data' = t.data
    /\ filename' = t.filename
    /\ track_len_ptr' = t.track_len_ptr
    /\ track_start_ptr' = t.track_start_ptr
    /\ mem' = t.mem
    /\ fault' = t.fault
    /\ oob' = t.oob
    /\ heap' = t.heap
    /\ patch' = t.patch
    /\ files' = t.files
    /\ sum_added' = t.sum_added
    /\ sum_ticks' = t.sum_ticks
    /\ sum_disc' = t.sum_disc
    /\ ovf' = t.ovf
    /\ last' = l
    /\ track' = tr
    /\ scen' = sc
    /\ ncalls' = ncalls + 1

\* The bytes a call appended to the block: those past the old cursor.
Appended(t) ==
    IF t.fault = "ok" /\ Len(t.mem) >= Len(mem)
    THEN SubSeq(t.mem, Len(mem) + 1, Len(t.mem)) ELSE <<>>

\* The bytes vgm_close appended, read off the buffer it handed to write_file.
AppendedAtClose(t) ==
    IF t.fault = "ok" /\ Len(t.files) > Len(files)
    THEN SubSeq(t.files[Len(t.files)].bytes, Len(mem) + 1,
                Len(t.files[Len(t.files)].bytes))
    ELSE <<>>

Called(op, args, chunk, t) ==
    [op |-> op, args |-> args, dq |-> delayq, chunk |-> chunk,
     disc |-> IF op = "open" THEN 0 ELSE t.sum_disc - sum_disc,
     live |-> vgmdata.st = "buf" /\ data.st = "buf"]

Tracked(op, chunk) == Append(track, [op |-> op, chunk |-> chunk])

VgmOpen ==
    /\ fault = "ok"
    /\ ncalls < MaxCalls
    /\ \E fname \in Names, nameOk \in BOOLEAN, bufOk \in BOOLEAN :
         \E t \in vgm_open(Cur, fname, nameOk, bufOk) :
            Apply(t, Called("open", fname,
                            IF nameOk /\ bufOk THEN t.mem ELSE <<>>, t),
                  IF nameOk /\ bufOk THEN <<>> ELSE track,
                  IF nameOk /\ bufOk /\ fname = Song /\ t.fault = "ok"
                  THEN 1 ELSE 0)

VgmWriteOf(E) ==
    /\ fault = "ok"
    /\ ncalls < MaxCalls
    /\ \E e \in E :
         \E t \in vgm_write(Cur, e[1], e[2], e[3], e[4]) :
            Apply(t, Called("write", e, Appended(t), t),
                  Tracked("write", Appended(t)),
                  IF t.fault # "ok" THEN 0
                  ELSE IF scen = 1 /\ e = <<144, 0, 60, 100>> THEN 2
                  ELSE IF scen = 3 /\ e = <<128, 0, 60, 0>> THEN 4
                  ELSE 0)

VgmWrite == VgmWriteOf(Events)

VgmDelay ==
    /\ fault = "ok"
    /\ ncalls < MaxCalls
    /\ \E d \in Delays :
         Apply(vgm_delay(Cur, d), Called("delay", <<d.hi, d.lo>>, <<>>, Cur),
               track,
               IF scen = 2 /\ d = U32Of(50) THEN 3 ELSE 0)

VgmWriteTag ==
    /\ fault = "ok"
    /\ ncalls < MaxCalls
    /\ \E g \in Tags :
         \E t \in vgm_write_tag(Cur, g[1], g[2], Clock) :
            Apply(t, Called("tag", <<g[2]>>, Appended(t), t),
                  Tracked("tag", Appended(t)), 0)

VgmClose ==
    /\ fault = "ok"
    /\ ncalls < MaxCalls
    /\ \E t \in vgm_close(Cur) :
         Apply(t, Called("close", <<>>, AppendedAtClose(t), t),
               Tracked("close", AppendedAtClose(t)),
               IF scen = 4 /\ t.fault = "ok" THEN 5 ELSE 0)

Next == VgmOpen \/ VgmWrite \/ VgmDelay \/ VgmWriteTag \/ VgmClose

Spec == Init /\ [][Next]_vars

(***************************************************************************)
(* A second specification for the encoding of one event: a stream is       *)
(* opened, delays are added, and the first event of the stream is written  *)
(* with inputs drawn from every class of command, port, reg and value.     *)
(***************************************************************************)
Commands == {144, 159, 128, 138, 176, 192, 197, 224, 225, 255, 240, 247,
             160, 208, 0, 127}
Ports == {0, 9, 250}
Regs == {47, 60, 255, 303, 65455}          \* 303 = 0x012F, 65455 = 0xFFAF
Values == {0, 100, 128, 8256, 65535}       \* 8256 = 0x2040
WideEvents ==
    {<<c, q, r, v>> : c \in Commands, q \in Ports, r \in Regs, v \in Values}

FreshStream == fault = "ok" /\ vgmdata.st = "buf" /\ data.st = "buf" /\ track = <<>>

EncOpen ==
    /\ fault = "ok"
    /\ vgmdata.st = "null"
    /\ ncalls < MaxCalls
    /\ \E t \in vgm_open(Cur, Song, TRUE, TRUE) :
          Apply(t, Called("open", Song, t.mem, t), <<>>, 0)

EncDelay ==
    /\ track = <<>>
    /\ VgmDelay

EncWrite ==
    /\ FreshStream
    /\ VgmWriteOf(WideEvents)

NextEnc == EncOpen \/ EncDelay \/ EncWrite

SpecEnc == Init /\ [][NextEnc]_vars

(***************************************************************************)
(* A third specification for write_varlen alone: on a freshly opened       *)
(* stream it is applied to one value drawn from around every boundary of   *)
(* the encoding (2^7, 2^14, 2^21, 2^28) up to 2^32 - 1.                    *)
(***************************************************************************)
VlqHi == {0, 1, 31, 32, 33, 4095, 4096, 4097, 32768, 65535}
VlqLo == {0, 1, 127, 128, 129, 300, 16383, 16384, 16385, 32768, 65534, 65535}
VlqInputs == {U32(h, l) : h \in VlqHi, l \in VlqLo}

WriteVarlen ==
    /\ FreshStream
    /\ \E x \in VlqInputs :
         \E t \in write_varlen(Cur, x) :
            Apply(t, Called("varlen", <<x.hi, x.lo>>, Appended(t), t),
                  Tracked("varlen", Appended(t)), 0)

NextVlq == EncOpen \/ WriteVarlen

SpecVlq == Init /\ [][NextVlq]_vars

(***************************************************************************)
(* A specification with the stubs, which the others leave out because a    *)
(* stub changes nothing: a stream is opened, and delays, Note On events    *)
(* and stub calls follow in any order (the stubs and vgm_delay also before *)
(* the stream is opened).                                                  *)
(***************************************************************************)
VgmPoke32 ==
    /\ fault = "ok"
    /\ ncalls < MaxCalls
    /\ \E a \in {<<18, 255>>} :
         Apply(vgm_poke32(Cur, a[1], a[2]), Called("poke32", a, <<>>, Cur),
               track, 0)

VgmPoke8 ==
    /\ fault = "ok"
    /\ ncalls < MaxCalls
    /\ \E a \in {<<0, 127>>} :
         Apply(vgm_poke8(Cur, a[1], a[2]), Called("poke8", a, <<>>, Cur),
               track, 0)

VgmDatablock ==
    /\ fault = "ok"
    /\ ncalls < MaxCalls
    /\ \E a \in {<<1, 2, <<240, 247>>, 2, 255, 0>>} :
         Apply(vgm_datablock(Cur, a[1], a[2], a[3], a[4], a[5], a[6]),
               Called("datablock", a, <<>>, Cur), track, 0)

VgmSetloop ==
    /\ fault = "ok"
    /\ ncalls < MaxCalls
    /\ Apply(vgm_setloop(Cur), Called("setloop", <<>>, <<>>, Cur), track, 0)

FrameOpen ==
    /\ ncalls < MaxCalls
    /\ EncOpen

FrameWrite == VgmWriteOf({<<144, 0, 60, 100>>})

NextFrame ==
    \/ FrameOpen \/ VgmDelay \/ FrameWrite
    \/ VgmPoke32 \/ VgmPoke8 \/ VgmDatablock \/ VgmSetloop

SpecFrame == Init /\ [][NextFrame]_vars

(***************************************************************************)
(* A specification for buffer growth: one stream is opened and tags *)
(* are written to it until the cursor has passed every capacity that       *)
(* buffer_size reaches before it wraps; each realloc() fails, grows the    *)
(* block in place or moves it.                                             *)
(***************************************************************************)
GrowTag ==
    /\ fault = "ok"
    /\ vgmdata.st = "buf" /\ data.st = "buf"
    /\ data.off < MaxCursor
    /\ \E g \in Tags :
         \E t \in vgm_write_tag(Cur, g[1], g[2], Clock) :
            Apply(t, Called("tag", <<g[2]>>, Appended(t), t),
                  Tracked("tag", Appended(t)), 0)

NextGrow == EncOpen \/ GrowTag

SpecGrow == Init /\ [][NextGrow]_vars

(***************************************************************************)
(* Observers used by the properties.                                       *)
(***************************************************************************)
Emissions == {"write", "tag", "close"}

\* The last call was an emission on an open stream and it returned.
Emitted == fault = "ok" /\ last.op \in Emissions /\ last.live

\* The last call was a vgm_close of an open stream and it returned.
Closed == fault = "ok" /\ last.op = "close" /\ last.live

FileBytes == files[Len(files)].bytes

\* A stream is open: the last vgm_open succeeded and vgm_close has not run
\* since.
StreamOpen == fault = "ok" /\ vgmdata.st = "buf" /\ data.st = "buf"

HeaderBytes == MThd \o <<0, 0, 0, 6, 0, 0, 0, 1, 1, 224>> \o MTrk

EndOfTrack == <<255, 47, 0>>

\* Reads one variable-length quantity off the front of q: bytes with the
\* high bit set continue, the first byte without it ends the number.
RECURSIVE DecodeFrom(_, _, _)
DecodeFrom(q, i, acc) ==
    IF i > Len(q) THEN [ok |-> FALSE, value |-> acc, len |-> i - 1]
    ELSE IF q[i] >= 128 THEN DecodeFrom(q, i + 1, acc * 128 + (q[i] - 128))
    ELSE [ok |-> TRUE, value |-> acc * 128 + q[i], len |-> i]

DecodeVarlen(q) == DecodeFrom(q, 1, 0)

\* What follows the delta-time in the bytes a call appended.
AfterDelta(chunk) == SubSeq(chunk, DecodeVarlen(chunk).len + 1, Len(chunk))

RECURSIVE Flatten(_)
Flatten(tr) == IF tr = <<>> THEN <<>> ELSE Head(tr).chunk \o Flatten(Tail(tr))

(***************************************************************************)
(* C1.  After vgm_close the four bytes at offsets 18..21 of the buffer     *)
(* handed to write_file hold, big-endian, the number of bytes from offset  *)
(* 22 to the end of the buffer.  The code patches through the address      *)
(* captured by vgm_open, so this fails once realloc() has moved the block. *)
(***************************************************************************)
C1_LengthPatched ==
    Closed => /\ Len(FileBytes) >= 22
              /\ SubSeq(FileBytes, 19, 22) = BE32(Len(FileBytes) - 22)

(***************************************************************************)
(* C2.  The track payload handed to write_file is the concatenation, in    *)
(* call order, of what every vgm_write / vgm_write_tag call appended,      *)
(* followed by what vgm_close appended (a delta-time and FF 2F 00); and    *)
(* for open("song"), Note On, vgm_delay(50), Note Off, close the track is  *)
(* 00 90 3C 64, 05 80 3C 00, 00 FF 2F 00 with patched length n.  The claim *)
(* has n = 11; the twelve bytes listed give n = 12, which is what the code *)
(* writes.                                                                 *)
(***************************************************************************)
PayloadInCallOrder(n) ==
    /\ Closed =>
         /\ SubSeq(FileBytes, 23, Len(FileBytes)) = Flatten(track)
         /\ AfterDelta(track[Len(track)].chunk) = EndOfTrack
         /\ \A i \in 1..Len(track) - 1 : track[i].op \in {"write", "tag"}
    /\ (Closed /\ scen = 5) =>
         /\ SubSeq(FileBytes, 23, Len(FileBytes))
              = <<0, 144, 60, 100, 5, 128, 60, 0, 0, 255, 47, 0>>
         /\ SubSeq(FileBytes, 19, 22) = <<0, 0, 0, n>>
         /\ files[Len(files)].name = Song \o DotMid

\* C2 as claimed: track length 11.
C2_TrackLengthEleven == PayloadInCallOrder(11)

\* C2 as amended: track length 12.
C2_PayloadInCallOrder == PayloadInCallOrder(12)

C2_Witness ==
    /\ Closed /\ Len(track) >= 3
    /\ \E i \in 1..Len(track) : track[i].op = "tag"
    /\ \E i \in 1..Len(track) : track[i].op = "write" /\ Len(track[i].chunk) = 4

C2_ScenarioWitness == Closed /\ scen = 5

(***************************************************************************)
(* C3.  After the delta-time step of vgm_write, vgm_write_tag and          *)
(* vgm_close delayq is 0 whatever it was before.  The code resets delayq   *)
(* only when it is at least 10: a remainder of 1..9 stays and is added to  *)
(* the next delay.                                                         *)
(***************************************************************************)
C3_DelayqResetByEmission == Emitted => delayq = U32Of(0)

(***************************************************************************)
(* C4.  While delayq has not wrapped, after every emission 10 times the    *)
(* ticks emitted plus the units discarded equals the units added, and no   *)
(* emission discards more than 9 units.  (sum_added is 10 * q + r.)        *)
(***************************************************************************)
C4_DelayConservation ==
    (Emitted /\ ~ovf) =>
        /\ sum_ticks + (sum_disc \div 10) = sum_added.q
        /\ sum_disc % 10 = sum_added.r
        /\ last.disc <= 9

(***************************************************************************)
(* C5.  Every vgm_write, vgm_write_tag and vgm_close call appends exactly  *)
(* one delta-time before any other byte, encoding floor(delayq / 10) for   *)
(* the delayq at the time of the call, a single 00 when that is zero.      *)
(***************************************************************************)
C5_DeltaTimeFirst ==
    Emitted =>
        LET d == DecodeVarlen(last.chunk)
            rest == AfterDelta(last.chunk)
        IN  /\ d.ok
            /\ d.value = U32Div10(last.dq)
            /\ (d.value = 0 => d.len = 1)
            /\ (d.value > 0 => last.chunk[1] # 128)
            /\ last.op = "close" => rest = EndOfTrack
            /\ last.op = "tag" => Len(rest) > 2 /\ SubSeq(rest, 1, 2) = <<255, 1>>
            /\ last.op = "write" =>
                 \/ rest = <<>>
                 \/ /\ Len(rest) \in {2, 3}
                    /\ rest[1] >= 128
                    /\ \A i \in 2..Len(rest) : rest[i] < 128

C5_Witness ==
    /\ Emitted /\ last.op = "write"
    /\ last.dq = U32Of(50)
    /\ last.chunk = <<5, 128, 60, 0>>

C5_WitnessZero ==
    Emitted /\ last.op = "tag" /\ last.dq = U32Of(5) /\ last.chunk[1] = 0

(***************************************************************************)
(* C9.  While a stream is open, and in the buffer vgm_close hands to       *)
(* write_file, bytes 0..13 are "MThd", 00 00 00 06, 00 00, 00 01, 01 E0    *)
(* and bytes 14..17 are "MTrk".                                            *)
(***************************************************************************)
C9_HeaderKept ==
    /\ StreamOpen => Len(mem) >= 22 /\ SubSeq(mem, 1, 18) = HeaderBytes
    /\ Closed => Len(FileBytes) >= 22 /\ SubSeq(FileBytes, 1, 18) = HeaderBytes

C9_Witness ==
    /\ Closed /\ Len(FileBytes) > MIDI_BUFFER - GrowMargin
    /\ \E i \in 1..Len(track) : track[i].op = "write"

(***************************************************************************)
(* C10.  vgm_close always appends its own delta-time and FF 2F 00, also    *)
(* after the caller wrote an End of Track with vgm_write(0xFF, _, 0x2F, _):*)
(* the buffer handed to write_file ends in FF 2F 00 and every End of Track *)
(* written earlier is still in it, where it was written.                   *)
(***************************************************************************)
EarlierEndOfTrack(i) ==
    i < Len(track) /\ track[i].op = "write" /\ EndsWith(track[i].chunk, EndOfTrack)

C10_CloseAppendsEndOfTrack ==
    Closed =>
        /\ EndsWith(FileBytes, EndOfTrack)
        /\ AfterDelta(last.chunk) = EndOfTrack
        /\ Len(FileBytes) = 22 + Len(Flatten(track))
        /\ \A i \in 1..Len(track) :
             EarlierEndOfTrack(i) =>
               LET upto == 22 + Len(Flatten(SubSeq(track, 1, i)))
               IN  /\ upto <= Len(FileBytes) - Len(last.chunk)
                   /\ SubSeq(FileBytes, upto - 2, upto) = EndOfTrack

C10_Witness ==
    /\ Closed
    /\ Len(track) >= 2
    /\ EarlierEndOfTrack(Len(track) - 1)
    /\ Len(FileBytes) >= 22 + 8

(***************************************************************************)
(* Bit operations on naturals, for stating the encodings.                  *)
(***************************************************************************)
RECURSIVE BitAnd(_, _)
BitAnd(a, b) ==
    IF a = 0 \/ b = 0 THEN 0
    ELSE (a % 2) * (b % 2) + 2 * BitAnd(a \div 2, b \div 2)

RECURSIVE BitOr(_, _)
BitOr(a, b) ==
    IF a = 0 THEN b ELSE IF b = 0 THEN a
    ELSE (IF a % 2 = 1 \/ b % 2 = 1 THEN 1 ELSE 0)
           + 2 * BitOr(a \div 2, b \div 2)

RECURSIVE Shr(_, _)
Shr(a, n) == IF n = 0 THEN a ELSE Shr(a \div 2, n - 1)

\* The last call was vgm_write(command, port, reg, value) on an open stream.
Wrote == Emitted /\ last.op = "write"
WroteMessage == AfterDelta(last.chunk)

(***************************************************************************)
(* C6.  For a command with high nibble 9, 8, B, C or E the message bytes   *)
(* after the delta-time are (cmd&0xF0)|(port&0x0F), reg&0x7F, value&0x7F   *)
(* for 0x90/0x80/0xB0; 0xC0|(port&0x0F), value&0x7F for 0xC0; and          *)
(* 0xE0|(port&0x0F), value&0x7F, (value>>7)&0x7F for 0xE0: the status byte *)
(* has its high bit set and every data byte its high bit clear.            *)
(***************************************************************************)
C6_ChannelMessageBytes ==
    Wrote =>
        LET command == last.args[1]
            port == last.args[2]
            reg == last.args[3]
            value == last.args[4]
            hi == BitAnd(command, 240)
            m == WroteMessage
        IN  /\ hi \in {144, 128, 176} =>
                 m = <<BitOr(hi, BitAnd(port, 15)), BitAnd(reg, 127),
                       BitAnd(value, 127)>>
            /\ hi = 192 => m = <<BitOr(192, BitAnd(port, 15)), BitAnd(value, 127)>>
            /\ hi = 224 =>
                 m = <<BitOr(224, BitAnd(port, 15)), BitAnd(value, 127),
                       BitAnd(Shr(value, 7), 127)>>
            /\ hi \in {144, 128, 176, 192, 224} =>
                 /\ m[1] >= 128
                 /\ \A i \in 2..Len(m) : m[i] < 128

C6_Witness ==
    /\ Wrote
    /\ last.args = <<225, 250, 303, 65535>>
    /\ WroteMessage = <<234, 127, 127>>

(***************************************************************************)
(* C7.  vgm_write with command 0xFF appends FF 2F 00 when the meta type    *)
(* is 0x2F and nothing otherwise; with 0xF0, 0xF7 and every other command  *)
(* whose high nibble is not 8, 9, B, C or E it appends nothing besides the *)
(* delta-time.  IsEndOfTrack(reg) says which reg values select 0x2F: the   *)
(* claim has reg = 0x2F, the code compares the low byte of reg.            *)
(***************************************************************************)
MetaAndUnsupported(IsEndOfTrack(_)) ==
    Wrote =>
        LET command == last.args[1]
            reg == last.args[3]
            hi == BitAnd(command, 240)
        IN  /\ (command = 255 /\ IsEndOfTrack(reg)) => WroteMessage = EndOfTrack
            /\ (command = 255 /\ ~IsEndOfTrack(reg)) => WroteMessage = <<>>
            /\ (command # 255 /\ hi \notin {128, 144, 176, 192, 224}) =>
                 WroteMessage = <<>>

RegIs2F(reg) == reg = 47
LowByteIs2F(reg) == BitAnd(reg, 255) = 47

\* C7 as claimed: only reg = 0x2F gives an End of Track.
C7_EndOfTrackOnlyFor2F == MetaAndUnsupported(RegIs2F)

\* C7 as amended: reg & 0xFF = 0x2F gives an End of Track.
C7_EndOfTrackForLowByte2F == MetaAndUnsupported(LowByteIs2F)

C7_Witness ==
    /\ Wrote
    /\ last.args[1] = 255 /\ last.args[3] = 303
    /\ last.chunk = <<0, 255, 47, 0>>

C7_WitnessDropped ==
    Wrote /\ last.args[1] = 247 /\ last.dq = U32Of(30) /\ last.chunk = <<3>>

(***************************************************************************)
(* C8.  The delta-time vgm_write appends and the delayq it leaves do not   *)
(* depend on command, port, reg and value; after vgm_delay(30) and         *)
(* vgm_write(0xA0, ...) exactly the byte 03 was appended and the next      *)
(* event written gets delta-time 0.                                        *)
(***************************************************************************)
\* The delta-time bytes a vgm_write call ending in t appended, and the
\* delayq it left.
DeltaView(t) ==
    <<SubSeq(Appended(t), 1, DecodeVarlen(Appended(t)).len), t.delayq, t.fault>>

DeltaViews(e) == {DeltaView(t) : t \in vgm_write(Cur, e[1], e[2], e[3], e[4])}

C8_DeltaIndependentOfEvent ==
    /\ FreshStream =>
         \A e \in WideEvents :
            /\ DeltaViews(e) = DeltaViews(<<0, 0, 0, 0>>)
            /\ \A v \in DeltaViews(e) : Len(v[1]) >= 1
    /\ (Wrote /\ last.args[1] = 160 /\ last.dq = U32Of(30)) =>
         /\ last.chunk = <<3>>
         /\ delayq = U32Of(0)
         /\ \A e \in WideEvents : \A v \in DeltaViews(e) : v[1] = <<0>>

C8_Witness ==
    /\ Wrote /\ last.args[1] = 160 /\ last.dq = U32Of(30)
    /\ last.chunk = <<3>>
    /\ delayq = U32Of(0)

(***************************************************************************)
(* What the API's callers can observe of the program: the globals, the     *)
(* bytes of the block, the write_file calls and the heap.                  *)
(***************************************************************************)
StreamState == <<buffer_size, delayq, vgmdata, data, filename, track_len_ptr,
                 track_start_ptr, mem>>
ProgramState == <<StreamState, files, heap>>

\* No stream is open: before the first vgm_open, or after vgm_close.
ClosedState == fault = "ok" /\ vgmdata.st = "null" /\ data.st = "null"

(***************************************************************************)
(* C11.  In the Closed state every vgm_write, vgm_write_tag or vgm_close   *)
(* call returns (there is nothing but an error to report) and changes      *)
(* nothing: no byte written, no second free, no second write_file.  The    *)
(* code has no such check: the call stores its delta-time through the NULL *)
(* cursor.                                                                 *)
(***************************************************************************)
C11_ClosedStateRejectsEmission ==
    [][(ClosedState /\ last'.op \in Emissions)
         => (fault' = "ok" /\ UNCHANGED ProgramState)]_vars

(***************************************************************************)
(* C12.  vgm_open on an open stream is rejected and leaves the stream's    *)
(* buffer, cursor, delay counter, track bookkeeping and filename as they   *)
(* were.  The code has no such check: it overwrites the globals.           *)
(***************************************************************************)
C12_OpenWhileOpenRejected ==
    [][(StreamOpen /\ last'.op = "open")
         => (fault' = "ok" /\ UNCHANGED StreamState)]_vars

(***************************************************************************)
(* C13.  While a stream is open the write cursor data - vgmdata is at most *)
(* buffer_size, also after a realloc() that failed.  The code ignores the  *)
(* failure and keeps appending.                                            *)
(***************************************************************************)
C13_CursorWithinCapacity ==
    StreamOpen => data.off - vgmdata.off <= buffer_size

(***************************************************************************)
(* C14.  write_varlen(x) appends the canonical variable-length quantity of *)
(* x: its 7-bit groups, most significant first, as few as x needs, bit     *)
(* 0x80 set on every byte but the last; decoding them gives x for x below  *)
(* 2^28; no 32-bit x takes more than 5 bytes; 0 is 00, 127 is 7F and 128   *)
(* is 81 00.                                                               *)
(***************************************************************************)
\* Bit j (0..31, and 0 beyond) of the U32 x, and its k-th 7-bit group.
BitOf(x, j) ==
    IF j < 16 THEN Shr(x.lo, j) % 2
    ELSE IF j < 32 THEN Shr(x.hi, j - 16) % 2
    ELSE 0

GroupOf(x, k) ==
    BitOf(x, 7 * k) + 2 * BitOf(x, 7 * k + 1) + 4 * BitOf(x, 7 * k + 2)
      + 8 * BitOf(x, 7 * k + 3) + 16 * BitOf(x, 7 * k + 4)
      + 32 * BitOf(x, 7 * k + 5) + 64 * BitOf(x, 7 * k + 6)

\* How many groups x needs: up to and including its highest non-zero one.
GroupsNeeded(x) ==
    LET used == {k + 1 : k \in {j \in 0..4 : GroupOf(x, j) # 0}} \cup {1}
    IN  CHOOSE n \in used : \A m \in used : m <= n

WroteVarlen == fault = "ok" /\ last.op = "varlen"

C14_VarlenCanonical ==
    WroteVarlen =>
        LET x == U32(last.args[1], last.args[2])
            b == last.chunk
            n == Len(b)
        IN  /\ n = GroupsNeeded(x)
            /\ n <= 5
            /\ \A i \in 1..n :
                 /\ b[i] % 128 = GroupOf(x, n - i)
                 /\ (b[i] >= 128) <=> (i < n)
            /\ x.hi < 4096 =>
                 /\ DecodeVarlen(b).ok
                 /\ DecodeVarlen(b).len = n
                 /\ DecodeVarlen(b).value = x.hi * 65536 + x.lo
            /\ x = U32(0, 0) => b = <<0>>
            /\ x = U32(0, 127) => b = <<127>>
            /\ x = U32(0, 128) => b = <<129, 0>>

C14_Witness ==
    /\ WroteVarlen
    /\ last.args = <<4095, 65535>>
    /\ last.chunk = <<255, 255, 255, 127>>

C14_WitnessFiveBytes ==
    /\ WroteVarlen
    /\ last.args = <<65535, 65535>>
    /\ last.chunk = <<143, 255, 255, 255, 127>>

(***************************************************************************)
(* C15.  vgm_write_tag appends, after its delta-time, FF 01, the variable- *)
(* length quantity of a length L, then exactly L text bytes, L being the   *)
(* length of the generated text (at most 511), every text byte below       *)
(* limit.  The claim has limit = 0x80 (ASCII); the separators the code     *)
(* puts into the text are U+2014, three bytes E2 80 94 each.               *)
(***************************************************************************)
TagMetaEvent(limit) ==
    (Emitted /\ last.op = "tag") =>
        LET rest == AfterDelta(last.chunk)
            body == SubSeq(rest, 3, Len(rest))
            L == DecodeVarlen(body)
            text == SubSeq(body, L.len + 1, Len(body))
        IN  /\ Len(rest) >= 3
            /\ SubSeq(rest, 1, 2) = <<255, 1>>
            /\ L.ok
            /\ L.value = Len(text)
            /\ L.value <= 511
            /\ text = TagText(<<71>>, last.args[1], Clock)
            /\ \A i \in 1..Len(text) : text[i] < limit

\* C15 as claimed: the text is ASCII.
C15_TagTextAscii == TagMetaEvent(128)

\* What does hold: the same with text bytes of any value.
C15_TagTextBytes == TagMetaEvent(256)

(***************************************************************************)
(* C16.  The track payload handed to write_file parses completely as a     *)
(* sequence of (delta-time, event) pairs, every delta-time immediately     *)
(* followed by a complete channel or meta event, the last pair being a     *)
(* delta-time and FF 2F 00.  The code writes a delta-time and no event for *)
(* a command it does not support.                                          *)
(***************************************************************************)
\* The index of the last byte of the event that starts at q[j], 0 if no
\* complete channel or meta event starts there.
EventEnd(q, j) ==
    LET st == q[j]
        L == DecodeFrom(q, j + 2, 0)
    IN  IF st \div 16 \in {8, 9, 10, 11, 14}
        THEN IF j + 2 <= Len(q) /\ q[j + 1] < 128 /\ q[j + 2] < 128
             THEN j + 2 ELSE 0
        ELSE IF st \div 16 \in {12, 13}
        THEN IF j + 1 <= Len(q) /\ q[j + 1] < 128 THEN j + 1 ELSE 0
        ELSE IF st = 255
        THEN IF j + 2 <= Len(q) /\ q[j + 1] < 128 /\ L.ok
                  /\ L.len + L.value <= Len(q)
             THEN L.len + L.value ELSE 0
        ELSE 0

\* q parses from index i on as pairs, the last one ending in End of Track.
RECURSIVE ParsePairs(_, _)
ParsePairs(q, i) ==
    LET d == DecodeFrom(q, i, 0)
        j == d.len + 1
    IN  /\ d.ok
        /\ j <= Len(q)
        /\ EventEnd(q, j) > 0
        /\ IF EventEnd(q, j) = Len(q)
           THEN SubSeq(q, j, Len(q)) = EndOfTrack
           ELSE ParsePairs(q, EventEnd(q, j) + 1)

TrackPayload == SubSeq(FileBytes, 23, Len(FileBytes))

\* Every call that appended to the track appended an event after its
\* delta-time.
EveryCallWroteAnEvent ==
    \A i \in 1..Len(track) : AfterDelta(track[i].chunk) # <<>>

C16_TrackParses == Closed => ParsePairs(TrackPayload, 1)

\* What does hold: the payload parses when no call was dropped.
C16_TrackParsesUnlessDropped ==
    (Closed /\ EveryCallWroteAnEvent) => ParsePairs(TrackPayload, 1)

(***************************************************************************)
(* C17.  write_file is called only by vgm_close, once per call, with the   *)
(* whole buffer [0, cursor) and the stream's filename, after the track     *)
(* length was patched into it; the buffer and the filename are then each   *)
(* released once and the globals cleared, whether write_file failed or     *)
(* not.  needPatch says whether the length must be in the bytes written:   *)
(* it is not there once realloc() has moved the block (see C1).            *)
(***************************************************************************)
WrittenFile == files'[Len(files')]

CloseWritesOnce(needPatch) ==
    /\ files' # files =>
         /\ last'.op = "close"
         /\ Len(files') = Len(files) + 1
         /\ SubSeq(files', 1, Len(files)) = files
    /\ (StreamOpen /\ last'.op = "close" /\ fault' = "ok") =>
         /\ Len(files') = Len(files) + 1
         /\ WrittenFile.valid
         /\ WrittenFile.name = filename
         /\ Len(WrittenFile.bytes) = Len(mem) + Len(last'.chunk)
         /\ SubSeq(WrittenFile.bytes, 1, 18) = SubSeq(mem, 1, 18)
         /\ SubSeq(WrittenFile.bytes, 23, Len(WrittenFile.bytes))
              = SubSeq(mem, 23, Len(mem)) \o last'.chunk
         /\ needPatch =>
              SubSeq(WrittenFile.bytes, 19, 22)
                = BE32(Len(WrittenFile.bytes) - 22)
         /\ heap' = [buf |-> heap.buf - 1, name |-> heap.name - 1]
         /\ vgmdata' = NULL /\ data' = NULL /\ filename' = <<>>

C17_WriteFileOnceAfterPatch == [][CloseWritesOnce(TRUE)]_vars

\* What does hold: the same without the patched length.
C17_WriteFileOnce == [][CloseWritesOnce(FALSE)]_vars

(***************************************************************************)
(* C18.  The stream is append-only: a call on an open stream leaves every  *)
(* byte below the cursor as it was, buffer growth included, except that    *)
(* vgm_close overwrites the four bytes at offsets 18..21; and the stores   *)
(* of that patch go nowhere but into the live buffer.  patchInside says    *)
(* whether the latter is required: after realloc() has moved the block the *)
(* patch goes through the stale track_len_ptr (see C1).                    *)
(***************************************************************************)
PrefixKept(a, b) == Len(b) >= Len(a) /\ SubSeq(b, 1, Len(a)) = a

AppendOnly(patchInside) ==
    /\ (StreamOpen /\ last'.op \in {"write", "tag", "delay"} /\ fault' = "ok") =>
         PrefixKept(mem, mem')
    /\ (StreamOpen /\ last'.op = "close" /\ fault' = "ok") =>
         /\ Len(WrittenFile.bytes) >= Len(mem)
         /\ \A i \in 1..Len(mem) :
              i \notin 19..22 => WrittenFile.bytes[i] = mem[i]
         /\ patchInside => patch' = "live"

C18_AppendOnlyPatchInside == [][AppendOnly(TRUE)]_vars

\* What does hold: the same without the requirement on the patch.
C18_AppendOnly == [][AppendOnly(FALSE)]_vars

(***************************************************************************)
(* C19.  When a call that starts with at least the margin of headroom      *)
(* makes the buffer grow, the capacity becomes twice what it was (in the   *)
(* width of buffer_size), the cursor moves by what was appended, the bytes *)
(* written stay, and the headroom is at least the margin again.  upTo      *)
(* bounds the capacities this is stated for: the claim has them all, but   *)
(* once 2 * buffer_size wraps the new capacity is below the cursor.        *)
(***************************************************************************)
Cursor == data.off - vgmdata.off
Headroom == buffer_size - Cursor

GrowthDoubles(upTo) ==
    (/\ StreamOpen
     /\ Headroom >= GrowMargin
     /\ buffer_size <= upTo
     /\ last'.op \in {"write", "tag"}
     /\ fault' = "ok"
     /\ buffer_size' # buffer_size)
    => /\ buffer_size' = (2 * buffer_size) % SizeWrap
       /\ data'.off - vgmdata'.off = Cursor + Len(last'.chunk)
       /\ PrefixKept(mem, mem')
       /\ buffer_size' - (data'.off - vgmdata'.off) >= GrowMargin

C19_GrowthDoublesAtEveryCapacity == [][GrowthDoubles(SizeWrap)]_vars

\* What does hold: the same for capacities whose double does not wrap.
C19_GrowthDoublesBelowWrap == [][GrowthDoubles((SizeWrap - 1) \div 2)]_vars

(***************************************************************************)
(* C20.  vgm_delay changes only delayq, to (delayq + delay) mod 2^32, and  *)
(* appends nothing; vgm_poke32, vgm_poke8, vgm_datablock and vgm_setloop   *)
(* change nothing at all.                                                  *)
(***************************************************************************)
Stubs == {"poke32", "poke8", "datablock", "setloop"}

DelayAndStubsFrame ==
    /\ last'.op = "delay" =>
         /\ delayq'.lo = (delayq.lo + last'.args[2]) % 65536
         /\ delayq'.hi =
              (delayq.hi + last'.args[1]
                 + (delayq.lo + last'.args[2]) \div 65536) % 65536
         /\ UNCHANGED <<buffer_size, vgmdata, data, filename, track_len_ptr,
                        track_start_ptr, mem, files, heap, fault>>
    /\ last'.op \in Stubs => UNCHANGED <<ProgramState, fault>>

C20_DelayAndStubsFrame == [][DelayAndStubsFrame]_vars

C20_Witness ==
    /\ StreamOpen /\ Len(mem) > 22
    /\ last.op = "delay"
    /\ last.dq = U32(65535, 65535)
    /\ delayq = U32Of(4)

C20_WitnessStub ==
    StreamOpen /\ Len(mem) > 22 /\ last.op = "datablock"

====
